---- MODULE Spec2Model ----
(***************************************************************************)
(* Model of channeldb/kvdb/etcd/embed.go: the free-port allocator          *)
(* getFreePort and the embedded-instance constructor                       *)
(* NewEmbeddedEtcdInstance, run by NumProcs goroutines of one process,     *)
(* next to an operating system whose loopback ports may be taken and       *)
(* released by unrelated programs at any moment.                           *)
(***************************************************************************)
EXTENDS Integers, Naturals, Sequences, FiniteSets, TLC

(* ------------------------------ bounds --------------------------------- *)
\* goroutines calling NewEmbeddedEtcdInstance concurrently
NumProcs == 2
\* how many ports after the initial cursor unrelated programs may bind
ExtSpan == 2
\* how many probe-socket Close() calls may report an error in one run
MaxCloseFail == 1
\* how many times a caller may invoke one cleanup closure
MaxTeardownCalls == 2
\* distance of the "cursor near the maximum" start from the last TCP port
Headroom == 2

(* --------------------------- program constants ------------------------- *)
defaultEtcdPort == 2379
MaxPort == 65535
MaxTxnOps == 8192
MaxRequestBytes == 16777216
readyTimeout == "10s"

Procs == 1..NumProcs
Paths == {"/tmp/etcd"}
LaunchErrors == {"listen tcp: address already in use", "cannot access data directory"}

VARIABLES
    lastPort,      \* the shared uint32 cursor
    extBound,      \* ports held by unrelated programs
    leaked,        \* probe sockets whose Close() failed and stayed open
    pc,            \* position of each goroutine in NewEmbeddedEtcdInstance
    call,          \* which getFreePort call the goroutine is in
    path,          \* argument of NewEmbeddedEtcdInstance
    port,          \* local variable port of getFreePort
    probe,         \* port of the open probe listener l, 0 when none
    probeLog,      \* outcome of every probe a goroutine made
    returned,      \* the values getFreePort returned to the goroutine
    entry,         \* the cursor each getFreePort call found at its first increment
    clientURL,     \* local variable clientURL
    peerURL,       \* local variable peerURL
    cfg,           \* the embed.Config handed to StartEtcd
    etcd,          \* the embedded instance: "nil", "running", "closed"
    startErr,      \* the error StartEtcd returned
    ready,         \* ReadyNotify() channel is closed
    instListen,    \* ports the embedded instance listens on
    ctx,           \* the context: "none", "live", "canceled"
    ret,           \* the values NewEmbeddedEtcdInstance returned
    td,            \* next statement of the running cleanup closure, 0 = none
    teardownCalls, \* invocations of the cleanup closure
    cancelCalls,   \* calls of cancel()
    closeLog,      \* who called etcd.Close(), in order
    closeFails     \* probe-socket Close() errors so far

vars == <<lastPort, extBound, leaked, pc, call, path, port, probe, probeLog,
          returned, entry, clientURL, peerURL, cfg, etcd, startErr, ready,
          instListen, ctx, ret, td, teardownCalls, cancelCalls, closeLog,
          closeFails>>

(* ------------------------------ helpers -------------------------------- *)
Range(s) == {s[i] : i \in DOMAIN s}

\* a cursor that is read but never stored back
AddUint32_NoStore(v) == v

\* a cursor that advances by two
AddUint32_SkipOne(v) == v + 2

\* a cursor that counts down
AddUint32_Down(v) == v - 1

\* atomic.AddUint32(&lastPort, 1): the new value.  The cursor is a uint32 and
\* would wrap at 2^32; every call that draws a candidate of 65535 or more
\* panics, so a run would need about 2^32 panicking calls to get there and
\* the wrap is left out.
AddUint32(v) == v + 1

\* a loop that never gives up
InRange_NoLimit(q) == TRUE

\* a loop that also tries the last port
InRange_Inclusive(q) == q <= 65535

\* the loop condition of getFreePort
InRange(q) == q < 65535

\* fmt.Sprintf("127.0.0.1:%d", port)
Sprintf(q) == "127.0.0.1:" \o ToString(q)

\* every port some socket is bound to
Occupied ==
    extBound \cup leaked \cup ({probe[p] : p \in Procs} \ {0})
             \cup UNION {instListen[p] : p \in Procs}

\* net.Listen("tcp4", addr) succeeds
CanListen(q) == q \in 1..MaxPort /\ q \notin Occupied

\* a return that leaves the probe listener open
ProbeAfterClose_StillOpen(q) == q

\* the probe listener of the goroutine after l.Close() returned nil: none
ProbeAfterClose(q) == 0

\* one allocation used for both listen addresses
NewConfig_SharedURL(dir, cURL, pURL) ==
    [Dir |-> dir, MaxTxnOps |-> MaxTxnOps, MaxRequestBytes |-> MaxRequestBytes,
     LCUrls |-> <<[Host |-> cURL]>>, LPUrls |-> <<[Host |-> cURL]>>]

\* the two listen addresses exchanged
NewConfig_Swapped(dir, cURL, pURL) ==
    [Dir |-> dir, MaxTxnOps |-> MaxTxnOps, MaxRequestBytes |-> MaxRequestBytes,
     LCUrls |-> <<[Host |-> pURL]>>, LPUrls |-> <<[Host |-> cURL]>>]

\* cfg as assembled by lines 59-70
NewConfig(dir, cURL, pURL) ==
    [Dir |-> dir, MaxTxnOps |-> MaxTxnOps, MaxRequestBytes |-> MaxRequestBytes,
     LCUrls |-> <<[Host |-> cURL]>>, LPUrls |-> <<[Host |-> pURL]>>]

\* the configuration before lines 59-70 have run
NoConfig ==
    [Dir |-> "", MaxTxnOps |-> 0, MaxRequestBytes |-> 0,
     LCUrls |-> <<>>, LPUrls |-> <<>>]

\* the ports handed out so far
AllReturned == UNION {Range(returned[p]) : p \in Procs}

\* the port an address of the configuration names
PortOf(addr) == CHOOSE q \in AllReturned : Sprintf(q) = addr

\* the two listeners StartEtcd opens for a configuration
ListenPorts(c) == <<PortOf(c.LPUrls[1].Host), PortOf(c.LCUrls[1].Host)>>

\* the error of StartEtcd is not looked at
AfterStartEtcd_IgnoreErr(err) == "select"

\* where the code goes after StartEtcd returned err
AfterStartEtcd(err) == IF err # "nil" THEN "retLaunch" ELSE "select"

\* a select that does not wait for the notification
ReadyCase_Always(p) == TRUE

\* case <-etcd.Server.ReadyNotify() can be taken
ReadyCase(p) == ready[p]

\* a timeout branch that returns without closing
OnTimeout_NoClose == <<>>

\* statements of the timeout branch before its return
OnTimeout == <<"close">>

\* a timeout branch without its return statement
AfterTimeout_FallThrough == "withCancel"

\* a timeout branch that waits on instead of returning
AfterTimeout_Block == "blocked"

\* where the code goes after the timeout branch
AfterTimeout == "retTimeout"

\* a descriptor pointing at the client address
connConfig_ClientHost(c, cURL, pURL) ==
    [Ctx |-> c, Host |-> "http://" \o cURL, User |-> "user", Pass |-> "pass",
     InsecureSkipVerify |-> TRUE]

\* a descriptor carrying one context shared by all calls
connConfig_SharedCtx(c, cURL, pURL) ==
    [Ctx |-> 1, Host |-> "http://" \o pURL, User |-> "user", Pass |-> "pass",
     InsecureSkipVerify |-> TRUE]

\* the BackendConfig built on the ready path
connConfig(c, cURL, pURL) ==
    [Ctx |-> c, Host |-> "http://" \o pURL, User |-> "user", Pass |-> "pass",
     InsecureSkipVerify |-> TRUE]

\* a closure that only cancels
Cleanup_NoClose == <<"cancel">>

\* a closure that closes before it cancels
Cleanup_CloseFirst == <<"close", "cancel">>

\* statements of the cleanup closure
Cleanup == <<"cancel", "close">>

\* the cursor the run starts from: a fresh process, or one that has already
\* handed out nearly the whole range
StartCursors == {defaultEtcdPort, MaxPort - Headroom}

\* the ports unrelated programs take and release
ExtWindow ==
    IF lastPort < MaxPort - Headroom
    THEN (defaultEtcdPort + 1)..(defaultEtcdPort + ExtSpan)
    ELSE (MaxPort - Headroom + 1)..MaxPort

NoReturn == [cfg |-> <<>>, cleanup |-> FALSE, err |-> "none"]

(* ------------------------------- Init ---------------------------------- *)
Init ==
    /\ lastPort \in StartCursors
    /\ extBound = {}
    /\ leaked = {}
    /\ pc = [p \in Procs |-> "idle"]
    /\ call = [p \in Procs |-> "none"]
    /\ path = [p \in Procs |-> ""]
    /\ port = [p \in Procs |-> 0]
    /\ probe = [p \in Procs |-> 0]
    /\ probeLog = [p \in Procs |-> {}]
    /\ returned = [p \in Procs |-> <<>>]
    /\ entry = [p \in Procs |-> <<>>]
    /\ clientURL = [p \in Procs |-> ""]
    /\ peerURL = [p \in Procs |-> ""]
    /\ cfg = [p \in Procs |-> NoConfig]
    /\ etcd = [p \in Procs |-> "nil"]
    /\ startErr = [p \in Procs |-> "none"]
    /\ ready = [p \in Procs |-> FALSE]
    /\ instListen = [p \in Procs |-> {}]
    /\ ctx = [p \in Procs |-> "none"]
    /\ ret = [p \in Procs |-> NoReturn]
    /\ td = [p \in Procs |-> 0]
    /\ teardownCalls = [p \in Procs |-> 0]
    /\ cancelCalls = [p \in Procs |-> 0]
    /\ closeLog = [p \in Procs |-> <<>>]
    /\ closeFails = 0

(* ----------------------------- environment ----------------------------- *)
\* an unrelated program binds a free loopback port
ExtBind(q) ==
    /\ q \in ExtWindow
    /\ q \notin Occupied
    /\ extBound' = extBound \cup {q}
    /\ UNCHANGED <<lastPort, leaked, pc, call, path, port, probe, probeLog,
                   returned, entry, clientURL, peerURL, cfg, etcd, startErr, ready,
                   instListen, ctx, ret, td, teardownCalls, cancelCalls,
                   closeLog, closeFails>>

\* an unrelated program releases its port
ExtRelease(q) ==
    /\ q \in extBound
    /\ extBound' = extBound \ {q}
    /\ UNCHANGED <<lastPort, leaked, pc, call, path, port, probe, probeLog,
                   returned, entry, clientURL, peerURL, cfg, etcd, startErr, ready,
                   instListen, ctx, ret, td, teardownCalls, cancelCalls,
                   closeLog, closeFails>>

(* ----------------------------- getFreePort ----------------------------- *)
\* a goroutine enters NewEmbeddedEtcdInstance and its first getFreePort
Call(p, dir) ==
    /\ pc[p] = "idle"
    /\ path' = [path EXCEPT ![p] = dir]
    /\ call' = [call EXCEPT ![p] = "client"]
    /\ pc' = [pc EXCEPT ![p] = "add"]
    /\ UNCHANGED <<lastPort, extBound, leaked, port, probe, probeLog,
                   returned, entry, clientURL, peerURL, cfg, etcd, startErr, ready,
                   instListen, ctx, ret, td, teardownCalls, cancelCalls,
                   closeLog, closeFails>>

\* port = atomic.AddUint32(&lastPort, 1), then the loop test
GfpAdd(p) ==
    /\ pc[p] = "add"
    /\ lastPort' = AddUint32(lastPort)
    /\ port' = [port EXCEPT ![p] = lastPort']
    /\ entry' = [entry EXCEPT ![p] =
                    IF Len(@) = Len(returned[p]) THEN Append(@, lastPort) ELSE @]
    /\ pc' = [pc EXCEPT ![p] = IF InRange(lastPort') THEN "listen" ELSE "panic"]
    /\ UNCHANGED <<extBound, leaked, call, path, probe, probeLog, returned,
                   clientURL, peerURL, cfg, etcd, startErr, ready, instListen,
                   ctx, ret, td, teardownCalls, cancelCalls, closeLog,
                   closeFails>>

\* panic("no ports available for listening")
Panic(p) ==
    /\ pc[p] = "panic"
    /\ pc' = [pc EXCEPT ![p] = "panicked"]
    /\ UNCHANGED <<lastPort, extBound, leaked, call, path, port, probe,
                   probeLog, returned, entry, clientURL, peerURL, cfg, etcd, startErr,
                   ready, instListen, ctx, ret, td, teardownCalls, cancelCalls,
                   closeLog, closeFails>>

\* l, err := net.Listen("tcp4", addr) with err == nil
ListenOK(p) ==
    /\ pc[p] = "listen"
    /\ CanListen(port[p])
    /\ probe' = [probe EXCEPT ![p] = port[p]]
    /\ pc' = [pc EXCEPT ![p] = "close"]
    /\ UNCHANGED <<lastPort, extBound, leaked, call, path, port, probeLog,
                   returned, entry, clientURL, peerURL, cfg, etcd, startErr, ready,
                   instListen, ctx, ret, td, teardownCalls, cancelCalls,
                   closeLog, closeFails>>

\* net.Listen failed: go on to the next candidate
ListenErr(p) ==
    /\ pc[p] = "listen"
    /\ ~CanListen(port[p])
    /\ probeLog' = [probeLog EXCEPT ![p] = @ \cup {<<port[p], "listenErr">>}]
    /\ pc' = [pc EXCEPT ![p] = "add"]
    /\ UNCHANGED <<lastPort, extBound, leaked, call, path, port, probe,
                   returned, entry, clientURL, peerURL, cfg, etcd, startErr, ready,
                   instListen, ctx, ret, td, teardownCalls, cancelCalls,
                   closeLog, closeFails>>

\* l.Close() succeeded: getFreePort returns port to lines 67-70
ProbeCloseOK(p) ==
    /\ pc[p] = "close"
    /\ probe' = [probe EXCEPT ![p] = ProbeAfterClose(port[p])]
    /\ probeLog' = [probeLog EXCEPT ![p] = @ \cup {<<port[p], "ok">>}]
    /\ returned' = [returned EXCEPT ![p] = Append(@, port[p])]
    /\ IF call[p] = "client"
       THEN /\ clientURL' = [clientURL EXCEPT ![p] = Sprintf(port[p])]
            /\ call' = [call EXCEPT ![p] = "peer"]
            /\ pc' = [pc EXCEPT ![p] = "add"]
            /\ UNCHANGED <<peerURL, cfg>>
       ELSE /\ peerURL' = [peerURL EXCEPT ![p] = Sprintf(port[p])]
            /\ cfg' = [cfg EXCEPT ![p] =
                          NewConfig(path[p], clientURL[p], peerURL'[p])]
            /\ call' = [call EXCEPT ![p] = "none"]
            /\ pc' = [pc EXCEPT ![p] = "startEtcd"]
            /\ UNCHANGED clientURL
    /\ UNCHANGED <<lastPort, extBound, leaked, path, port, entry, etcd, startErr,
                   ready, instListen, ctx, ret, td, teardownCalls, cancelCalls,
                   closeLog, closeFails>>

\* l.Close() reported an error: the socket may or may not have been
\* released; the candidate is dropped
ProbeCloseErr(p, kept) ==
    /\ pc[p] = "close"
    /\ closeFails < MaxCloseFail
    /\ closeFails' = closeFails + 1
    /\ probe' = [probe EXCEPT ![p] = 0]
    /\ leaked' = IF kept THEN leaked \cup {port[p]} ELSE leaked
    /\ probeLog' = [probeLog EXCEPT ![p] = @ \cup {<<port[p], "closeErr">>}]
    /\ pc' = [pc EXCEPT ![p] = "add"]
    /\ UNCHANGED <<lastPort, extBound, call, path, port, returned, entry, clientURL,
                   peerURL, cfg, etcd, startErr, ready, instListen, ctx, ret,
                   td, teardownCalls, cancelCalls, closeLog>>

(* ----------------------- NewEmbeddedEtcdInstance ----------------------- *)
\* etcd, err := embed.StartEtcd(cfg) with err == nil: both listeners are open
StartEtcdOK(p) ==
    /\ pc[p] = "startEtcd"
    /\ LET ls == ListenPorts(cfg[p]) IN
         /\ ls[1] # ls[2]
         /\ CanListen(ls[1])
         /\ CanListen(ls[2])
         /\ instListen' = [instListen EXCEPT ![p] = {ls[1], ls[2]}]
    /\ etcd' = [etcd EXCEPT ![p] = "running"]
    /\ startErr' = [startErr EXCEPT ![p] = "nil"]
    /\ pc' = [pc EXCEPT ![p] = AfterStartEtcd("nil")]
    /\ UNCHANGED <<lastPort, extBound, leaked, call, path, port, probe,
                   probeLog, returned, entry, clientURL, peerURL, cfg, ready, ctx,
                   ret, td, teardownCalls, cancelCalls, closeLog, closeFails>>

\* embed.StartEtcd(cfg) failed: a listener could not be opened, or the
\* instance could not initialise for a reason of its own; nothing stays open
StartEtcdErr(p, e) ==
    /\ pc[p] = "startEtcd"
    /\ e \in LaunchErrors
    /\ LET ls == ListenPorts(cfg[p]) IN
         (e = "listen tcp: address already in use")
            <=> (ls[1] = ls[2] \/ ~CanListen(ls[1]) \/ ~CanListen(ls[2]))
    /\ startErr' = [startErr EXCEPT ![p] = e]
    /\ pc' = [pc EXCEPT ![p] = AfterStartEtcd(e)]
    /\ UNCHANGED <<lastPort, extBound, leaked, call, path, port, probe,
                   probeLog, returned, entry, clientURL, peerURL, cfg, etcd, ready,
                   instListen, ctx, ret, td, teardownCalls, cancelCalls,
                   closeLog, closeFails>>

\* return nil, nil, err
ReturnLaunchErr(p) ==
    /\ pc[p] = "retLaunch"
    /\ ret' = [ret EXCEPT ![p] =
                  [cfg |-> <<>>, cleanup |-> FALSE, err |-> startErr[p]]]
    /\ pc' = [pc EXCEPT ![p] = "done"]
    /\ UNCHANGED <<lastPort, extBound, leaked, call, path, port, probe,
                   probeLog, returned, entry, clientURL, peerURL, cfg, etcd, startErr,
                   ready, instListen, ctx, td, teardownCalls, cancelCalls,
                   closeLog, closeFails>>

\* the running server closes its ReadyNotify channel
ServerReady(p) ==
    /\ etcd[p] = "running"
    /\ ~ready[p]
    /\ ready' = [ready EXCEPT ![p] = TRUE]
    /\ UNCHANGED <<lastPort, extBound, leaked, pc, call, path, port, probe,
                   probeLog, returned, entry, clientURL, peerURL, cfg, etcd, startErr,
                   instListen, ctx, ret, td, teardownCalls, cancelCalls,
                   closeLog, closeFails>>

\* select takes case <-etcd.Server.ReadyNotify()
SelectReady(p) ==
    /\ pc[p] = "select"
    /\ ReadyCase(p)
    /\ pc' = [pc EXCEPT ![p] = "withCancel"]
    /\ UNCHANGED <<lastPort, extBound, leaked, call, path, port, probe,
                   probeLog, returned, entry, clientURL, peerURL, cfg, etcd, startErr,
                   ready, instListen, ctx, ret, td, teardownCalls, cancelCalls,
                   closeLog, closeFails>>

\* select takes case <-time.After(readyTimeout) and runs the branch up to
\* its return statement
SelectTimeout(p) ==
    /\ pc[p] = "select"
    /\ IF "close" \in Range(OnTimeout)
       THEN /\ etcd' = [etcd EXCEPT ![p] = IF @ = "nil" THEN "nil" ELSE "closed"]
            /\ instListen' = [instListen EXCEPT ![p] = {}]
            /\ closeLog' = [closeLog EXCEPT ![p] = Append(@, "manager")]
       ELSE UNCHANGED <<etcd, instListen, closeLog>>
    /\ pc' = [pc EXCEPT ![p] = AfterTimeout]
    /\ UNCHANGED <<lastPort, extBound, leaked, call, path, port, probe,
                   probeLog, returned, entry, clientURL, peerURL, cfg, startErr,
                   ready, ctx, ret, td, teardownCalls, cancelCalls,
                   closeFails>>

\* return nil, nil, fmt.Errorf("etcd failed to start after: %v", readyTimeout)
ReturnTimeout(p) ==
    /\ pc[p] = "retTimeout"
    /\ ret' = [ret EXCEPT ![p] =
                  [cfg |-> <<>>, cleanup |-> FALSE,
                   err |-> "etcd failed to start after: " \o readyTimeout]]
    /\ pc' = [pc EXCEPT ![p] = "done"]
    /\ UNCHANGED <<lastPort, extBound, leaked, call, path, port, probe,
                   probeLog, returned, entry, clientURL, peerURL, cfg, etcd, startErr,
                   ready, instListen, ctx, td, teardownCalls, cancelCalls,
                   closeLog, closeFails>>

\* ctx, cancel := context.WithCancel(context.Background())
WithCancel(p) ==
    /\ pc[p] = "withCancel"
    /\ ctx' = [ctx EXCEPT ![p] = "live"]
    /\ pc' = [pc EXCEPT ![p] = "retReady"]
    /\ UNCHANGED <<lastPort, extBound, leaked, call, path, port, probe,
                   probeLog, returned, entry, clientURL, peerURL, cfg, etcd, startErr,
                   ready, instListen, ret, td, teardownCalls, cancelCalls,
                   closeLog, closeFails>>

\* return connConfig, func() {...}, nil
ReturnReady(p) ==
    /\ pc[p] = "retReady"
    /\ ret' = [ret EXCEPT ![p] =
                  [cfg |-> <<connConfig(p, clientURL[p], peerURL[p])>>,
                   cleanup |-> TRUE, err |-> "nil"]]
    /\ pc' = [pc EXCEPT ![p] = "done"]
    /\ UNCHANGED <<lastPort, extBound, leaked, call, path, port, probe,
                   probeLog, returned, entry, clientURL, peerURL, cfg, etcd, startErr,
                   ready, instListen, ctx, td, teardownCalls, cancelCalls,
                   closeLog, closeFails>>

(* --------------------------- cleanup closure --------------------------- *)
\* the caller invokes the returned closure
TeardownCall(p) ==
    /\ ret[p].cleanup
    /\ td[p] = 0
    /\ teardownCalls[p] < MaxTeardownCalls
    /\ teardownCalls' = [teardownCalls EXCEPT ![p] = @ + 1]
    /\ td' = [td EXCEPT ![p] = 1]
    /\ UNCHANGED <<lastPort, extBound, leaked, pc, call, path, port, probe,
                   probeLog, returned, entry, clientURL, peerURL, cfg, etcd, startErr,
                   ready, instListen, ctx, ret, cancelCalls, closeLog,
                   closeFails>>

\* the closure runs its next statement: cancel() or etcd.Close()
TeardownStep(p) ==
    /\ td[p] \in 1..Len(Cleanup)
    /\ IF Cleanup[td[p]] = "cancel"
       THEN /\ ctx' = [ctx EXCEPT ![p] = "canceled"]
            /\ cancelCalls' = [cancelCalls EXCEPT ![p] = @ + 1]
            /\ UNCHANGED <<etcd, instListen, closeLog>>
       ELSE /\ etcd' = [etcd EXCEPT ![p] = IF @ = "nil" THEN "nil" ELSE "closed"]
            /\ instListen' = [instListen EXCEPT ![p] = {}]
            /\ closeLog' = [closeLog EXCEPT ![p] = Append(@, "teardown")]
            /\ UNCHANGED <<ctx, cancelCalls>>
    /\ td' = [td EXCEPT ![p] = IF @ = Len(Cleanup) THEN 0 ELSE @ + 1]
    /\ UNCHANGED <<lastPort, extBound, leaked, pc, call, path, port, probe,
                   probeLog, returned, entry, clientURL, peerURL, cfg, startErr,
                   ready, ret, teardownCalls, closeFails>>

(* ------------------------------- Next ---------------------------------- *)
\* every step but the panic of getFreePort
Step ==
    \/ \E q \in ExtWindow : ExtBind(q)
    \/ \E q \in extBound : ExtRelease(q)
    \/ \E p \in Procs, dir \in Paths : Call(p, dir)
    \/ \E p \in Procs : GfpAdd(p)
    \/ \E p \in Procs : ListenOK(p)
    \/ \E p \in Procs : ListenErr(p)
    \/ \E p \in Procs : ProbeCloseOK(p)
    \/ \E p \in Procs, kept \in BOOLEAN : ProbeCloseErr(p, kept)
    \/ \E p \in Procs : StartEtcdOK(p)
    \/ \E p \in Procs, e \in LaunchErrors : StartEtcdErr(p, e)
    \/ \E p \in Procs : ReturnLaunchErr(p)
    \/ \E p \in Procs : ServerReady(p)
    \/ \E p \in Procs : SelectReady(p)
    \/ \E p \in Procs : SelectTimeout(p)
    \/ \E p \in Procs : ReturnTimeout(p)
    \/ \E p \in Procs : WithCancel(p)
    \/ \E p \in Procs : ReturnReady(p)
    \/ \E p \in Procs : TeardownCall(p)
    \/ \E p \in Procs : TeardownStep(p)

Next ==
    \/ Step
    \/ \E p \in Procs : Panic(p)

Spec == Init /\ [][Next]_vars

\* a process that has just been started: the cursor is the one line 29 sets.
\* No run of NumProcs calls gets from there to the last port, so the panic
\* is not among its steps.
InitFresh == Init /\ lastPort = defaultEtcdPort

SpecFresh == InitFresh /\ [][Step]_vars

TypeOK ==
    /\ lastPort \in Nat
    /\ \A p \in Procs : Len(returned[p]) <= 2

(* ------------------------------ properties ----------------------------- *)
TimeoutErr == "etcd failed to start after: 10s"

\* sockets this process holds: probes, leaked probes and instance listeners
HeldByProcess ==
    leaked \cup ({probe[p] : p \in Procs} \ {0})
           \cup UNION {instListen[p] : p \in Procs}

\* the ports named by the configuration of p
CfgPorts(p) == {PortOf(cfg[p].LCUrls[1].Host), PortOf(cfg[p].LPUrls[1].Host)}

\* C1: the ports returned by all getFreePort calls of the process, made by
\* concurrent goroutines in any interleaving, are pairwise distinct.
C1_PortsPairwiseDistinct ==
    \A p \in Procs, q \in Procs :
      \A i \in DOMAIN returned[p], j \in DOMAIN returned[q] :
        (<<p, i>> # <<q, j>>) => returned[p][i] # returned[q][j]

\* two goroutines got two ports each, their calls interleaved
C1_Witness ==
    /\ Len(returned[1]) = 2
    /\ Len(returned[2]) = 2
    /\ returned[1][1] < returned[2][1]
    /\ returned[2][1] < returned[1][2]
    /\ returned[1][2] < returned[2][2]

\* C2: in every call the port of the client listen address and the port of
\* the peer listen address of the configuration differ.
C2_ClientPeerDiffer ==
    \A p \in Procs :
      cfg[p].LPUrls # <<>> =>
        /\ cfg[p].LCUrls[1].Host # cfg[p].LPUrls[1].Host
        /\ PortOf(cfg[p].LCUrls[1].Host) # PortOf(cfg[p].LPUrls[1].Host)

\* a configuration whose two allocations were separated by another
\* goroutine's allocation
C2_Witness ==
    \E p \in Procs :
      /\ cfg[p].LPUrls # <<>>
      /\ returned[p][2] > returned[p][1] + 1
      /\ \E q \in Procs \ {p} : \E j \in DOMAIN returned[q] :
            returned[p][1] < returned[q][j] /\ returned[q][j] < returned[p][2]

\* C3: on the timeout path the call returns the timeout error with no
\* descriptor and no cleanup closure, and the instance was closed before the
\* return: the process holds no socket on either port of its configuration.
C3_TimeoutClosesInstance ==
    \A p \in Procs :
      /\ pc[p] = "retTimeout" =>
            /\ etcd[p] = "closed"
            /\ CfgPorts(p) \cap HeldByProcess = {}
      /\ ret[p].err = TimeoutErr =>
            /\ ret[p].cfg = <<>>
            /\ ~ret[p].cleanup
            /\ etcd[p] = "closed"
            /\ instListen[p] = {}
            /\ CfgPorts(p) \cap HeldByProcess = {}

\* a launched instance that never became ready and was given up
C3_Witness ==
    \E p \in Procs :
      /\ ret[p].err = TimeoutErr
      /\ startErr[p] = "nil"
      /\ ~ready[p]
      /\ CfgPorts(p) \cap Occupied = {}

\* C4: after a successful start and one complete run of the cleanup closure
\* the instance is closed and the process holds no socket on its two ports.
C4_TeardownFreesPorts ==
    \A p \in Procs :
      (ret[p].cleanup /\ teardownCalls[p] = 1 /\ td[p] = 0) =>
        /\ etcd[p] = "closed"
        /\ instListen[p] = {}
        /\ CfgPorts(p) \cap HeldByProcess = {}

\* a started instance torn down once, both ports bindable again
C4_Witness ==
    \E p \in Procs :
      /\ ret[p].cleanup
      /\ teardownCalls[p] = 1
      /\ td[p] = 0
      /\ \A q \in CfgPorts(p) : CanListen(q)

\* C5: getFreePort never returns a number outside 1..65535 or one whose probe
\* did not succeed, and a candidate beyond the last port leads to the panic.
C5_ExhaustionPanics ==
    \A p \in Procs :
      /\ \A i \in DOMAIN returned[p] :
            /\ returned[p][i] \in 1..MaxPort
            /\ <<returned[p][i], "ok">> \in probeLog[p]
            /\ <<returned[p][i], "listenErr">> \notin probeLog[p]
            /\ <<returned[p][i], "closeErr">> \notin probeLog[p]
      /\ port[p] > MaxPort => pc[p] \in {"panic", "panicked"}

\* the cursor ran past the last port and the call panicked
C5_Witness ==
    \E p \in Procs :
      /\ pc[p] = "panicked"
      /\ port[p] > MaxPort
      /\ returned[p] = <<>>

\* C6: a descriptor or a cleanup closure is returned only for an instance
\* that was launched, whose ready notification was observed, and for which the
\* timeout branch was not taken.
C6_DescriptorOnlyWhenReady ==
    \A p \in Procs :
      (ret[p].cfg # <<>> \/ ret[p].cleanup) =>
        /\ startErr[p] = "nil"
        /\ ready[p]
        /\ "manager" \notin Range(closeLog[p])
        /\ ret[p].err = "nil"

\* a descriptor was returned
C6_Witness ==
    \E p \in Procs :
      /\ ret[p].cfg # <<>>
      /\ ret[p].cleanup
      /\ etcd[p] = "running"

\* C7: after a failed launch the call returns the error of StartEtcd with no
\* descriptor and no closure; it never waits for readiness, creates no
\* context and calls Close on nothing.
C7_LaunchFailureReturnsError ==
    \A p \in Procs :
      startErr[p] \in LaunchErrors =>
        /\ pc[p] \in {"retLaunch", "done"}
        /\ ctx[p] = "none"
        /\ closeLog[p] = <<>>
        /\ etcd[p] = "nil"
        /\ pc[p] = "done" =>
              ret[p] = [cfg |-> <<>>, cleanup |-> FALSE, err |-> startErr[p]]

\* a launch failed because a port was taken after its probe, and the call
\* returned that error
C7_Witness ==
    \E p \in Procs :
      /\ pc[p] = "done"
      /\ ret[p].err = "listen tcp: address already in use"

\* C8: Close is called by the manager only on the timeout path, where no
\* closure is returned, and by the closure only on the ready path; a closure
\* invoked once calls cancel once and Close once.
C8_ClosedExactlyOnce ==
    \A p \in Procs :
      /\ ~("manager" \in Range(closeLog[p]) /\ "teardown" \in Range(closeLog[p]))
      /\ "manager" \in Range(closeLog[p]) =>
            /\ closeLog[p] = <<"manager">>
            /\ ~ret[p].cleanup
            /\ teardownCalls[p] = 0
      /\ (ret[p].cleanup /\ teardownCalls[p] = 0) =>
            /\ closeLog[p] = <<>>
            /\ cancelCalls[p] = 0
      /\ teardownCalls[p] <= 1 =>
            /\ Len(closeLog[p]) <= 1
            /\ cancelCalls[p] <= 1
      /\ (teardownCalls[p] = 1 /\ td[p] = 0) =>
            /\ closeLog[p] = <<"teardown">>
            /\ cancelCalls[p] = 1
      /\ ret[p].err = TimeoutErr => closeLog[p] = <<"manager">>

\* one instance closed by its closure, another by the manager on timeout
C8_Witness ==
    \E p \in Procs, q \in Procs :
      /\ closeLog[p] = <<"teardown">>
      /\ teardownCalls[p] = 1
      /\ td[p] = 0
      /\ closeLog[q] = <<"manager">>
      /\ pc[q] = "done"

\* C9: the closure cancels the context before it closes the instance: once
\* the closure has closed the instance the context is canceled.
C9_CancelBeforeClose ==
    \A p \in Procs :
      "teardown" \in Range(closeLog[p]) => ctx[p] = "canceled"

\* the closure has canceled and is about to close
C9_Witness ==
    \E p \in Procs :
      /\ td[p] = 2
      /\ ctx[p] = "canceled"
      /\ etcd[p] = "running"
      /\ closeLog[p] = <<>>

\* C10: the host of a returned descriptor is "http://" followed by the peer
\* listen address of the configuration, which is not the client address; user
\* is "user", password "pass" and InsecureSkipVerify true.
C10_HostIsPeerAddress ==
    \A p \in Procs :
      ret[p].cfg # <<>> =>
        /\ ret[p].cfg[1].Host = "http://" \o cfg[p].LPUrls[1].Host
        /\ ret[p].cfg[1].Host # "http://" \o cfg[p].LCUrls[1].Host
        /\ ret[p].cfg[1].User = "user"
        /\ ret[p].cfg[1].Pass = "pass"
        /\ ret[p].cfg[1].InsecureSkipVerify = TRUE

\* the first goroutine of a fresh process gets 2380 and 2381
C10_Witness ==
    \E p \in Procs :
      /\ ret[p].cfg # <<>>
      /\ ret[p].cfg[1].Host = "http://127.0.0.1:2381"
      /\ cfg[p].LCUrls[1].Host = "127.0.0.1:2380"

\* the candidates a goroutine has drawn so far
Candidates(p) == {x[1] : x \in probeLog[p]} \cup ({port[p]} \ {0})

\* the candidates a goroutine probed and gave up
Rejected(p) == {x[1] : x \in {y \in probeLog[p] : y[2] # "ok"}}

\* C11: when no other goroutine drew a candidate during the call, getFreePort
\* returns the smallest port above the cursor it found at entry whose listen
\* and close succeeded: every port in between was probed and rejected by the
\* same call.
C11_FirstAvailablePort ==
    \A p \in Procs : \A i \in DOMAIN returned[p] :
      LET e == entry[p][i]
          r == returned[p][i]
      IN  (\A q \in Procs \ {p} : Candidates(q) \cap ((e + 1)..r) = {}) =>
            /\ r > e
            /\ <<r, "ok">> \in probeLog[p]
            /\ r \notin Rejected(p)
            /\ \A c \in (e + 1)..(r - 1) :
                  c \in Rejected(p) /\ c \notin Range(returned[p])

\* a goroutine running alone skipped two taken ports and returned the third
C11_Witness ==
    \E p \in Procs :
      /\ \A q \in Procs \ {p} : pc[q] = "idle"
      /\ Len(returned[p]) >= 1
      /\ returned[p][1] = entry[p][1] + 3
      /\ <<entry[p][1] + 1, "listenErr">> \in probeLog[p]
      /\ <<entry[p][1] + 2, "closeErr">> \in probeLog[p]

\* the ports some goroutine has opened a probe on
Probed == UNION {{x[1] : x \in probeLog[p]} : p \in Procs}
             \cup ({probe[p] : p \in Procs} \ {0})

\* C12 as stated: getFreePort panics only with a candidate above 65535, so
\* the candidate 65535 is still probed.
C12_PanicOnlyAboveMaxPort ==
    \A p \in Procs : pc[p] \in {"panic", "panicked"} => port[p] > MaxPort

\* C12 as the code has it: getFreePort panics only with a candidate of 65535
\* or more; before that every port from the entry cursor + 1 up to 65534 was
\* drawn by some call, those of the panicking call were probed and rejected,
\* and port 65535 is never probed and never returned.
C12_PanicOnlyAtMaxPort ==
    /\ MaxPort \notin Probed
    /\ MaxPort \notin AllReturned
    /\ \A p \in Procs :
         pc[p] \in {"panic", "panicked"} =>
           LET e == entry[p][Len(entry[p])] IN
             /\ port[p] >= MaxPort
             /\ \A c \in (e + 1)..(MaxPort - 1) :
                   /\ \E q \in Procs : c \in Candidates(q)
                   /\ c \in Candidates(p) => c \in Rejected(p)

\* the call found 65534 taken, drew 65535 and panicked
C12_Witness ==
    \E p \in Procs :
      /\ pc[p] = "panicked"
      /\ port[p] = MaxPort
      /\ entry[p][Len(entry[p])] = MaxPort - 2
      /\ (MaxPort - 1) \in Rejected(p)

\* every candidate drawn by any goroutine
AllCandidates == UNION {Candidates(p) : p \in Procs}

\* C13: the cursor starts at 2379; every step leaves it unchanged or adds
\* exactly one; it is incremented exactly when a candidate is drawn, which is
\* the new cursor value; no failure, timeout or teardown step moves it.
C13_CursorGrowsByOne ==
    /\ lastPort = defaultEtcdPort
    /\ [](lastPort = defaultEtcdPort + Cardinality(AllCandidates))
    /\ [][/\ lastPort' \in {lastPort, lastPort + 1}
          /\ (lastPort' = lastPort + 1) <=> (\E p \in Procs : port'[p] # port[p])
          /\ \A p \in Procs : port'[p] # port[p] => port'[p] = lastPort'
          /\ \A p \in Procs :
                (pc'[p] # pc[p] /\ pc'[p] \notin {"listen", "panic"})
                   => lastPort' = lastPort]_vars

\* four candidates drawn; one instance timed out, the other was torn down
C13_Witness ==
    \E p \in Procs, q \in Procs :
      /\ lastPort = defaultEtcdPort + 4
      /\ ret[p].err = TimeoutErr
      /\ closeLog[q] = <<"teardown">>

State(p) ==
    IF "teardown" \in Range(closeLog[p]) THEN "Stopped"
    ELSE IF "manager" \in Range(closeLog[p]) THEN "TimedOut"
    ELSE IF startErr[p] \in LaunchErrors THEN "Failed"
    ELSE IF pc[p] \in {"withCancel", "retReady"} \/ ret[p].cleanup THEN "Ready"
    ELSE IF pc[p] \in {"startEtcd", "select"} THEN "Starting"
    ELSE "Unstarted"

\* C15: an instance moves only Unstarted -> Starting -> Ready, Failed or
\* TimedOut and Ready -> Stopped; Failed and TimedOut are never left and come
\* with no descriptor and no closure; Stopped is entered only from Ready, by a
\* step of the cleanup closure.
C15_InstanceTransitions ==
    /\ [](\A p \in Procs :
            State(p) \in {"Failed", "TimedOut"} =>
               ret[p].cfg = <<>> /\ ~ret[p].cleanup /\ teardownCalls[p] = 0)
    /\ [][\A p \in Procs :
            /\ State(p)' # State(p) =>
                  <<State(p), State(p)'>> \in
                     {<<"Unstarted", "Starting">>, <<"Starting", "Ready">>,
                      <<"Starting", "Failed">>, <<"Starting", "TimedOut">>,
                      <<"Ready", "Stopped">>}
            /\ (State(p)' = "Stopped" /\ State(p) # "Stopped") =>
                  /\ td[p] \in 1..Len(Cleanup)
                  /\ Cleanup[td[p]] = "close"]_vars

\* one instance stopped by its closure, the other timed out and returned
C15_Witness ==
    \E p \in Procs, q \in Procs :
      /\ State(p) = "Stopped"
      /\ State(q) = "TimedOut"
      /\ pc[q] = "done"
      /\ teardownCalls[p] = MaxTeardownCalls

\* the timer of time.After fires after readyTimeout, and a goroutine that can
\* run is run: the select and the statements after it are taken in the end.
\* Nothing makes the server become ready.
SpecLive ==
    /\ Init
    /\ [][Next]_vars
    /\ \A p \in Procs :
         /\ WF_vars(SelectTimeout(p))
         /\ WF_vars(ReturnTimeout(p))
         /\ WF_vars(WithCancel(p))
         /\ WF_vars(ReturnReady(p))

\* C16: once StartEtcd has returned without error the call returns in the
\* end, with the descriptor or with the timeout error, whether or not the
\* server ever becomes ready; the select is entered once and left for good.
C16_StartReturns ==
    /\ \A p \in Procs :
         (pc[p] = "select") ~>
            (pc[p] = "done" /\ ret[p].err \in {"nil", TimeoutErr})
    /\ [][\A p \in Procs :
            /\ (pc'[p] = "select" /\ pc[p] # "select") => pc[p] = "startEtcd"
            /\ (pc[p] = "select" /\ pc'[p] # "select")
                  => pc'[p] \in {"withCancel", "retTimeout"}]_vars

\* the call returned the timeout error and the server never became ready
C16_Witness ==
    \E p \in Procs :
      /\ pc[p] = "done"
      /\ ret[p].err = TimeoutErr
      /\ ~ready[p]
      /\ startErr[p] = "nil"

\* C17: the context of a returned descriptor is live as long as the closure
\* of that call has not been invoked, and it stops being live only in the
\* cancel() of that closure, whatever other calls and closures do.
C17_ContextLiveUntilTeardown ==
    /\ [](\A p \in Procs :
            (ret[p].cfg # <<>> /\ teardownCalls[p] = 0) =>
               ctx[ret[p].cfg[1].Ctx] = "live")
    /\ [][\A p \in Procs :
            ret[p].cfg # <<>> =>
              LET c == ret[p].cfg[1].Ctx IN
                (ctx[c] = "live" /\ ctx'[c] # "live") =>
                   /\ td[p] \in 1..Len(Cleanup)
                   /\ Cleanup[td[p]] = "cancel"
                   /\ td'[p] # td[p]]_vars

\* a live context next to an instance that was torn down
C17_Witness ==
    \E p \in Procs, q \in Procs :
      /\ ret[p].cfg # <<>>
      /\ teardownCalls[p] = 0
      /\ ctx[ret[p].cfg[1].Ctx] = "live"
      /\ ctx[q] = "canceled"
      /\ etcd[q] = "closed"

\* C18: two calls, in any interleaving, use four different ports, never
\* listen on a common port, and return descriptors with different contexts.
C18_InstancesShareNothing ==
    \A p \in Procs : \A q \in Procs \ {p} :
      /\ (cfg[p].LPUrls # <<>> /\ cfg[q].LPUrls # <<>>) =>
            Cardinality(CfgPorts(p) \cup CfgPorts(q)) = 4
      /\ instListen[p] \cap instListen[q] = {}
      /\ (ret[p].cfg # <<>> /\ ret[q].cfg # <<>>) =>
            /\ ret[p].cfg[1].Ctx # ret[q].cfg[1].Ctx
            /\ ret[p].cfg[1].Host # ret[q].cfg[1].Host

\* two instances of interleaved calls running side by side
C18_Witness ==
    \E p \in Procs : \E q \in Procs \ {p} :
      /\ ret[p].cfg # <<>>
      /\ ret[q].cfg # <<>>
      /\ etcd[p] = "running"
      /\ etcd[q] = "running"
      /\ Cardinality(instListen[p] \cup instListen[q]) = 4
      /\ returned[p][1] < returned[q][1]
      /\ returned[q][1] < returned[p][2]

\* C19: a port is returned only after its listen and the close of the probe
\* socket both succeeded, and then the process holds no probe socket on it; a
\* candidate whose listen or close failed is never returned and the call goes
\* on to draw the next one.
C19_ReturnOnlyAfterProbe ==
    \A p \in Procs :
      /\ \A i \in DOMAIN returned[p] :
            /\ <<returned[p][i], "ok">> \in probeLog[p]
            /\ returned[p][i] \notin leaked
            /\ \A q \in Procs : probe[q] # returned[p][i]
      /\ pc[p] \in {"listen", "close"} => port[p] \notin AllReturned
      /\ pc[p] = "close" => probe[p] = port[p]
      /\ \A c \in Rejected(p) :
            /\ c \notin AllReturned
            /\ <<c, "ok">> \notin probeLog[p]
            /\ c = port[p] => pc[p] = "add"

\* a call that left a probe socket open on close error and returned the
\* candidate after it
C19_Witness ==
    \E p \in Procs : \E c \in leaked :
      /\ Len(returned[p]) = 2
      /\ returned[p][1] < c
      /\ returned[p][2] = c + 1
      /\ <<c, "closeErr">> \in probeLog[p]

\* C20: in every call the peer port is greater than the client port, whatever
\* other calls draw between the two allocations.
C20_PeerAboveClient ==
    \A p \in Procs :
      /\ Len(returned[p]) = 2 => returned[p][2] > returned[p][1]
      /\ cfg[p].LPUrls # <<>> =>
            /\ PortOf(cfg[p].LPUrls[1].Host) > PortOf(cfg[p].LCUrls[1].Host)
            /\ PortOf(cfg[p].LCUrls[1].Host) = returned[p][1]
            /\ PortOf(cfg[p].LPUrls[1].Host) = returned[p][2]

\* both allocations of another call fell between the client and the peer
\* allocation of this one
C20_Witness ==
    \E p \in Procs : \E q \in Procs \ {p} :
      /\ cfg[p].LPUrls # <<>>
      /\ Len(returned[q]) = 2
      /\ returned[p][1] < returned[q][1]
      /\ returned[q][2] < returned[p][2]

====
